---- MODULE Spec2Model ----
(***************************************************************************)
(* Version-aware module selection and configuration resolution of the      *)
(* Asterisk build generator (lib/menuselect.py, lib/template_generator.py).*)
(* Strings the code inspects character by character (version identifiers)  *)
(* are sequences of one-character strings; module names, which the code    *)
(* only compares, collects and sorts, are TLA+ strings.                    *)
(***************************************************************************)
EXTENDS Integers, Sequences, FiniteSets, TLC

(***************************************************************************)
(* Bounds of the explored inputs.                                          *)
(***************************************************************************)
MaxMajor == 24
MaxMinor == 9
MaxCert == 2

(***************************************************************************)
(* Character-level string helpers (Python str operations).                 *)
(***************************************************************************)
DigitChars == <<"0", "1", "2", "3", "4", "5", "6", "7", "8", "9">>

IsDigit(c) == \E i \in 1..10 : DigitChars[i] = c

DigitVal(c) == (CHOOSE i \in 1..10 : DigitChars[i] = c) - 1

\* str(n) for a non-negative integer
RECURSIVE Str(_)
Str(n) == IF n < 10 THEN <<DigitChars[n + 1]>>
          ELSE Str(n \div 10) \o <<DigitChars[(n % 10) + 1]>>

\* int(s) for a non-empty sequence of digits
RECURSIVE ToInt(_)
ToInt(s) == IF Len(s) = 0 THEN 0
            ELSE ToInt(SubSeq(s, 1, Len(s) - 1)) * 10 + DigitVal(s[Len(s)])

\* s[i:] (1-based i)
From(s, i) == SubSeq(s, i, Len(s))

\* s.startswith(p)
StartsWith(s, p) == Len(s) >= Len(p) /\ SubSeq(s, 1, Len(p)) = p

\* p occurs in s at position i
OccursAt(s, p, i) == i + Len(p) - 1 <= Len(s) /\ SubSeq(s, i, i + Len(p) - 1) = p

\* p in s
Contains(s, p) == \E i \in 1..(Len(s) + 1) : OccursAt(s, p, i)

\* s.split(p)[0]: the part of s before the first occurrence of p
SplitFirst(s, p) ==
    IF Contains(s, p)
    THEN LET i == CHOOSE j \in 1..Len(s) :
                     OccursAt(s, p, j) /\ \A k \in 1..(j - 1) : ~OccursAt(s, p, k)
         IN  SubSeq(s, 1, i - 1)
    ELSE s

\* s.split(p)[-1]: the part of s after the last occurrence of p
SplitLast(s, p) ==
    IF Contains(s, p)
    THEN LET i == CHOOSE j \in 1..Len(s) :
                     OccursAt(s, p, j) /\ \A k \in (j + 1)..Len(s) : ~OccursAt(s, p, k)
         IN  From(s, i + Len(p))
    ELSE s

\* length of the longest run of digits of s that starts at position i
RECURSIVE DigitRun(_, _)
DigitRun(s, i) == IF i <= Len(s) /\ IsDigit(s[i]) THEN 1 + DigitRun(s, i + 1) ELSE 0

GIT == <<"g", "i", "t">>
GIT_DASH == <<"g", "i", "t", "-">>
CERT == <<"-", "c", "e", "r", "t">>
ALPHA == <<"-", "a", "l", "p", "h", "a">>
BETA == <<"-", "b", "e", "t", "a">>
RC == <<"-", "r", "c">>


(***************************************************************************)
(* MenuSelectGenerator: version classification.                            *)
(***************************************************************************)
None == "None"

\* the sentinel the development tip is classified as
GitSentinel == 99

\* version == 'git' or version.startswith('git-')
IsGitVersion(version) == version = GIT \/ StartsWith(version, GIT_DASH)

\* the pre-release tag (alpha|beta|rc) that starts at position i of s, after "-"
TagAt(s, i) ==
    IF OccursAt(s, ALPHA, i) THEN "alpha"
    ELSE IF OccursAt(s, BETA, i) THEN "beta"
    ELSE IF OccursAt(s, RC, i) THEN "rc"
    ELSE None

\* re.match(r'^(\d+)\.(\d+)(?:\.(\d+))?(?:-(alpha|beta|rc)\d*)?', s): a match
\* of a prefix of s (the pattern has no end anchor); groups 1 to 4
VersionMatch(s) ==
    LET n1 == DigitRun(s, 1)
        dot1 == n1 + 1
        n2 == DigitRun(s, dot1 + 1)
        p3 == dot1 + n2 + 1
        n3 == IF p3 <= Len(s) /\ s[p3] = "." THEN DigitRun(s, p3 + 1) ELSE 0
        p4 == IF n3 > 0 THEN p3 + 1 + n3 ELSE p3
    IN  IF n1 > 0 /\ dot1 <= Len(s) /\ s[dot1] = "." /\ n2 > 0
        THEN [ok |-> TRUE,
              g1 |-> SubSeq(s, 1, n1),
              g2 |-> SubSeq(s, dot1 + 1, dot1 + n2),
              g3 |-> IF n3 > 0 THEN SubSeq(s, p3 + 1, p3 + n3) ELSE <<>>,
              g4 |-> TagAt(s, p4)]
        ELSE [ok |-> FALSE, g1 |-> <<>>, g2 |-> <<>>, g3 |-> <<>>, g4 |-> None]

\* base_version = version.split('-cert')[0]
CertBaseLast(version) == SplitLast(version, CERT)

CertBase(version) == SplitFirst(version, CERT)

\* _parse_version: ok = FALSE stands for the ValueError("Invalid version format")
GitAsOldest(version) == [ok |-> TRUE, major |-> 0, minor |-> 0, patch |-> 0, suffix |-> None]

GitParse(version) ==
    [ok |-> TRUE, major |-> GitSentinel, minor |-> GitSentinel, patch |-> GitSentinel,
     suffix |-> None]

_parse_version(version) ==
    IF IsGitVersion(version) THEN GitParse(version)
    ELSE LET m == VersionMatch(CertBase(version))
         IN  IF ~m.ok
             THEN [ok |-> FALSE, major |-> 0, minor |-> 0, patch |-> 0, suffix |-> None]
             ELSE [ok |-> TRUE,
                   major |-> ToInt(m.g1),
                   minor |-> ToInt(m.g2),
                   patch |-> IF m.g3 # <<>> THEN ToInt(m.g3) ELSE 0,
                   suffix |-> m.g4]

\* the legacy range without its last minor
LegacyBelowEight(major, minor) == major = 1 /\ minor >= 2 /\ minor < 8

\* _is_legacy_version: legacy versions are 1.2 to 1.8
_is_legacy_version(major, minor) == major = 1 /\ 2 <= minor /\ minor <= 8

\* __init__: the generator object built for an accepted version
NoGen == [major |-> -1, minor |-> -1, patch |-> -1, suffix |-> None, is_legacy |-> FALSE]

NewGenerator(version) ==
    LET p == _parse_version(version)
    IN  [major |-> p.major, minor |-> p.minor, patch |-> p.patch, suffix |-> p.suffix,
         is_legacy |-> _is_legacy_version(p.major, p.minor)]

(***************************************************************************)
(* MenuSelectGenerator: the module catalogs (class attributes).            *)
(***************************************************************************)
\* channel drivers by era
CHANNEL_MODULES ==
    [modern |->
         <<"chan_pjsip", "chan_iax2", "chan_local", "chan_bridge_media", "chan_websocket">>,
     legacy |->
         <<"chan_sip", "chan_iax2", "chan_local", "chan_zap">>,
     optional |->
         <<"chan_dahdi", "chan_audiosocket", "chan_console">>]

\* dialplan applications by group
APPLICATION_MODULES ==
    [core |->
         <<"app_dial", "app_playback", "app_record", "app_echo", "app_hangup", "app_noop",
      "app_verbose", "app_waitexten">>,
     voicemail |->
         <<"app_voicemail", "app_voicemailmain">>,
     conferencing |->
         <<"app_confbridge", "app_meetme">>,
     call_features |->
         <<"app_queue", "app_directory", "app_followme", "app_forkcdr", "app_mixmonitor",
      "app_monitor">>,
     control |->
         <<"app_if", "app_while", "app_goto", "app_gosub", "app_return", "app_stack">>,
     integration |->
         <<"app_system", "app_exec", "app_audiosocket">>]

\* resource modules by group
RESOURCE_MODULES ==
    [core |->
         <<"res_timing_timerfd", "res_crypto", "res_format_attr", "res_rtp_asterisk",
      "res_musiconhold">>,
     pjsip |->
         <<"res_pjsip", "res_pjsip_session", "res_pjsip_registrar",
      "res_pjsip_outbound_registration", "res_pjsip_endpoint_identifier_user",
      "res_pjsip_endpoint_identifier_ip", "res_pjsip_authenticator_digest",
      "res_pjsip_caller_id", "res_pjsip_transport_websocket">>,
     database |->
         <<"res_config_pgsql", "res_config_odbc", "res_odbc", "res_config_curl">>,
     cdr_cel |->
         <<"res_cdr", "res_cel">>,
     monitoring |->
         <<"res_hep", "res_hep_pjsip", "res_hep_rtcp", "res_statsd", "res_prometheus">>,
     ari |->
         <<"res_ari", "res_ari_applications", "res_ari_asterisk", "res_ari_bridges",
      "res_ari_channels", "res_ari_device_states", "res_ari_endpoints",
      "res_ari_events", "res_ari_mailboxes", "res_ari_model", "res_ari_playbacks",
      "res_ari_recordings", "res_ari_sounds">>,
     websocket |->
         <<"res_http_websocket", "res_websocket_client">>,
     security |->
         <<"res_srtp", "res_stun_monitor">>]

\* call-detail-record backends
CDR_MODULES ==
    [core |->
         <<"cdr_csv">>,
     database |->
         <<"cdr_odbc", "cdr_pgsql", "cdr_mysql">>,
     syslog |->
         <<"cdr_syslog">>,
     radius |->
         <<"cdr_radius">>]

\* call-event-log backends
CEL_MODULES ==
    [core |->
         <<"cel_custom">>,
     database |->
         <<"cel_odbc", "cel_pgsql", "cel_mysql">>]

\* modules excluded by default
EXCLUDE_MODULES ==
    <<"chan_dahdi", "chan_misdn", "app_festival", "app_flash", "res_pjsip_sdp_rtp",
      "codec_dahdi">>

\* categories to disable (sounds, documentation)
DISABLE_CATEGORIES ==
    <<"MENUSELECT_CORE_SOUNDS", "MENUSELECT_MOH", "MENUSELECT_EXTRA_SOUNDS">>

\* every module name of the catalogs, in ascending order of Python string
\* comparison: the order sorted() puts module names in
ModuleOrder ==
    <<"app_audiosocket", "app_confbridge", "app_dial", "app_directory", "app_echo",
      "app_exec", "app_festival", "app_flash", "app_followme", "app_forkcdr",
      "app_gosub", "app_goto", "app_hangup", "app_if", "app_meetme", "app_mixmonitor",
      "app_monitor", "app_noop", "app_playback", "app_queue", "app_record",
      "app_return", "app_stack", "app_system", "app_verbose", "app_voicemail",
      "app_voicemailmain", "app_waitexten", "app_while", "cdr_csv", "cdr_mysql",
      "cdr_odbc", "cdr_pgsql", "cdr_radius", "cdr_syslog", "cel_custom", "cel_mysql",
      "cel_odbc", "cel_pgsql", "chan_audiosocket", "chan_bridge_media", "chan_console",
      "chan_dahdi", "chan_iax2", "chan_local", "chan_misdn", "chan_pjsip", "chan_sip",
      "chan_websocket", "chan_zap", "codec_dahdi", "res_ari", "res_ari_applications",
      "res_ari_asterisk", "res_ari_bridges", "res_ari_channels",
      "res_ari_device_states", "res_ari_endpoints", "res_ari_events",
      "res_ari_mailboxes", "res_ari_model", "res_ari_playbacks", "res_ari_recordings",
      "res_ari_sounds", "res_cdr", "res_cel", "res_config_curl", "res_config_odbc",
      "res_config_pgsql", "res_crypto", "res_format_attr", "res_hep", "res_hep_pjsip",
      "res_hep_rtcp", "res_http_websocket", "res_musiconhold", "res_odbc", "res_pjsip",
      "res_pjsip_authenticator_digest", "res_pjsip_caller_id",
      "res_pjsip_endpoint_identifier_ip", "res_pjsip_endpoint_identifier_user",
      "res_pjsip_outbound_registration", "res_pjsip_registrar", "res_pjsip_sdp_rtp",
      "res_pjsip_session", "res_pjsip_transport_websocket", "res_prometheus",
      "res_rtp_asterisk", "res_srtp", "res_statsd", "res_stun_monitor",
      "res_timing_timerfd", "res_websocket_client">>

\* list(set(l)): the set of the elements of a list
ToSet(l) == {l[i] : i \in 1..Len(l)}

\* sorted(list(set(l)))
IsIn(S, m) == m \in S

Sorted(S) == SelectSeq(ModuleOrder, LAMBDA m : IsIn(S, m))

\* sorted(list(set(l))): duplicates removed, ascending order
AsBuilt(l) == l

SortedUnique(l) == Sorted(ToSet(l))

\* "pgsql" in m, "odbc" in m, over the module names of the catalogs
HasPgsql(m) == m \in {"res_config_pgsql", "cdr_pgsql", "cel_pgsql"}

HasOdbc(m) == m \in {"res_config_odbc", "res_odbc", "cdr_odbc", "cel_odbc"}

(***************************************************************************)
(* MenuSelectGenerator: feature flags and version gates.                   *)
(***************************************************************************)
FlagNames == {"postgresql", "odbc", "websocket", "ari", "srtp", "hep"}

EmptyFlags == <<>>

\* the argument generate_config takes when it is called without flags
NoFlags == [no_flags |-> TRUE]

\* features or {}
FeaturesOrEmpty(features) == IF features = NoFlags THEN EmptyFlags ELSE features

\* a flag that is absent counts as switched off
FeatureGetAbsentOff(features, key) ==
    IF key \in DOMAIN features THEN features[key] ELSE FALSE

\* features.get(key, True)
FeatureGet(features, key) == IF key \in DOMAIN features THEN features[key] ELSE TRUE

\* _version_supports_pjsip: 12+
_version_supports_pjsip(generator) == generator.major >= 12

\* _version_supports_websocket: 23+, mandatory
_version_supports_websocket(generator) == generator.major >= 23

\* _version_supports_ari: 12+
_version_supports_ari(generator) == generator.major >= 12

(***************************************************************************)
(* MenuSelectGenerator.generate_config, one operator per step of the body; *)
(* each step is the list it appends to enable_modules.                     *)
(***************************************************************************)
\* disable_modules = list(self.EXCLUDE_MODULES)
EmptySeed == <<>>

DisableSeed == EXCLUDE_MODULES

\* channel modules, chan_websocket removed below 23
ChannelStepWithOptional(generator) ==
    CHANNEL_MODULES.modern \o CHANNEL_MODULES.optional

ChannelStep(generator) ==
    LET chans == IF generator.is_legacy THEN CHANNEL_MODULES.legacy
                 ELSE CHANNEL_MODULES.modern
    IN  IF ~_version_supports_websocket(generator)
        THEN SelectSeq(chans, LAMBDA m : m # "chan_websocket")
        ELSE chans

\* application modules added for every version
ApplicationStep ==
    APPLICATION_MODULES.core \o APPLICATION_MODULES.voicemail
    \o APPLICATION_MODULES.call_features \o APPLICATION_MODULES.control

\* conferencing
ConferencingStep(generator) ==
    IF ~generator.is_legacy /\ generator.major >= 10
    THEN APPLICATION_MODULES.conferencing
    ELSE <<"app_meetme">>

\* resource modules added for every version
ResourceStep == RESOURCE_MODULES.core \o RESOURCE_MODULES.cdr_cel

\* PJSIP modules for modern versions
PjsipStep(generator) ==
    IF _version_supports_pjsip(generator) /\ ~generator.is_legacy
    THEN RESOURCE_MODULES.pjsip
    ELSE <<>>

\* database modules, by flag
DatabaseStep(features) ==
    (IF FeatureGet(features, "postgresql")
     THEN SelectSeq(RESOURCE_MODULES.database, HasPgsql)
          \o SelectSeq(CDR_MODULES.database, HasPgsql)
          \o SelectSeq(CEL_MODULES.database, HasPgsql)
     ELSE <<>>)
    \o
    (IF FeatureGet(features, "odbc")
     THEN SelectSeq(RESOURCE_MODULES.database, HasOdbc)
          \o SelectSeq(CDR_MODULES.database, HasOdbc)
          \o SelectSeq(CEL_MODULES.database, HasOdbc)
     ELSE <<>>)

\* CDR modules
CdrStep == CDR_MODULES.core

\* ARI modules for modern versions, by flag
AriStep(generator, features) ==
    IF _version_supports_ari(generator) /\ FeatureGet(features, "ari")
    THEN RESOURCE_MODULES.ari
    ELSE <<>>

\* WebSocket and ARI modules, mandatory for 23+, WebSocket by flag below
WebsocketStepByFlag(generator, features) ==
    IF FeatureGet(features, "websocket") /\ ~generator.is_legacy
    THEN RESOURCE_MODULES.websocket
    ELSE <<>>

WebsocketStep(generator, features) ==
    IF _version_supports_websocket(generator)
    THEN RESOURCE_MODULES.websocket \o RESOURCE_MODULES.ari
    ELSE IF FeatureGet(features, "websocket") /\ ~generator.is_legacy
         THEN RESOURCE_MODULES.websocket
         ELSE <<>>

\* security modules, by flag
SecurityStep(generator, features) ==
    IF FeatureGet(features, "srtp") /\ ~generator.is_legacy
    THEN RESOURCE_MODULES.security
    ELSE <<>>

\* monitoring/HEP modules, by flag
MonitoringStep(generator, features) ==
    IF FeatureGet(features, "hep") /\ ~generator.is_legacy
    THEN RESOURCE_MODULES.monitoring
    ELSE <<>>

\* the returned MenuSelectConfig
NoMenuSelectConfig == [enable |-> <<>>, disable |-> <<>>, disable_categories |-> <<>>]

\* generate_config of a generator whose class holds `excluded` as its
\* EXCLUDE_MODULES list
SelectModules(generator, features, excluded) ==
    LET flags == FeaturesOrEmpty(features)
        enable_modules ==
            ChannelStep(generator) \o ApplicationStep \o ConferencingStep(generator)
            \o ResourceStep \o PjsipStep(generator) \o DatabaseStep(flags) \o CdrStep
            \o AriStep(generator, flags) \o WebsocketStep(generator, flags)
            \o SecurityStep(generator, flags) \o MonitoringStep(generator, flags)
        disable_modules == excluded
    IN  [enable |-> SortedUnique(enable_modules),
         disable |-> SortedUnique(disable_modules),
         disable_categories |-> DISABLE_CATEGORIES]

generate_config(generator, features) == SelectModules(generator, features, DisableSeed)

\* get_required_menuselect_modules: the modules that must be selected for
\* basic functionality
BaseRequiredModules ==
    {"chan_local", "app_dial", "app_playback", "app_echo", "res_timing_timerfd", "res_crypto",
     "res_rtp_asterisk"}

get_required_menuselect_modules(generator) ==
    IF ~generator.is_legacy /\ _version_supports_pjsip(generator)
    THEN BaseRequiredModules \cup {"chan_pjsip", "res_pjsip", "res_pjsip_session"}
    ELSE BaseRequiredModules \cup {"chan_sip"}

(***************************************************************************)
(* DRYTemplateGenerator: configuration trees are Python dicts, modelled as *)
(* functions whose domain is the set of keys present.  Text that may hold  *)
(* placeholders is a sequence of pieces, a placeholder being one piece.    *)
(***************************************************************************)
EmptyDict == <<>>

Has(d, k) == k \in DOMAIN d

\* d.get(k, default)
Get(d, k, default) == IF k \in DOMAIN d THEN d[k] ELSE default

\* d[k] = v
Put(d, k, v) == [x \in (DOMAIN d) \cup {k} |-> IF x = k THEN v ELSE d[x]]

\* d.update(e)
Update(d, e) == [x \in (DOMAIN d) \cup (DOMAIN e) |-> IF x \in DOMAIN e THEN e[x] ELSE d[x]]

\* version.startswith((p1, p2, ...))
StartsWithAny(s, prefixes) == \E p \in prefixes : StartsWith(s, p)

\* _determine_variant
_determine_variant(v) ==
    IF StartsWithAny(v, {<<"1", ".", "2">>, <<"1", ".", "4">>, <<"1", ".", "6">>})
    THEN "legacy-addons"
    ELSE IF StartsWithAny(v, {<<"1", ".", "8">>, <<"1", "0", ".">>})
    THEN "legacy"
    ELSE IF StartsWith(v, <<"1", "1", ".">>) /\ ~Contains(v, CERT)
    THEN "asterisk-11"
    ELSE "modern"

\* _determine_distribution
_determine_distribution(v) ==
    IF StartsWithAny(v, {<<"1", ".">>, <<"1", "0", ".">>, <<"1", "1", ".">>,
                         <<"1", "2", ".">>})
    THEN "jessie"
    ELSE IF StartsWithAny(v, {<<"1", "3", ".">>, <<"1", "4", ".">>, <<"1", "5", ".">>})
    THEN "buster"
    ELSE IF StartsWithAny(v, {<<"1", "6", ".">>, <<"1", "7", ".">>})
    THEN "bookworm"
    ELSE "trixie"

\* the source-location templates of _resolve_asterisk_config
CertifiedSource ==
    [url_template |->
         "https://downloads.asterisk.org/pub/telephony/certified-asterisk/releases/asterisk-certified-{version}.tar.gz"]

ReleaseSource ==
    [url_template |->
         "https://downloads.asterisk.org/pub/telephony/asterisk/releases/asterisk-{version}.tar.gz"]

\* isinstance(value, dict) for the value held under a key of the asterisk
\* subtree
IsDictKey(key) == key \in {"menuselect", "source", "addons", "configure"}

\* the deep-merge loop of _resolve_asterisk_config, over the keys of the
\* variant layer still to apply
RECURSIVE MergeAsterisk(_, _, _)
MergeAsterisk(asterisk_config, variant_asterisk, keys) ==
    IF keys = {} THEN asterisk_config
    ELSE LET key == CHOOSE k \in keys : TRUE
             value == variant_asterisk[key]
             merged == IF Has(asterisk_config, key) /\ IsDictKey(key)
                       THEN Put(asterisk_config, key, Update(asterisk_config[key], value))
                       ELSE Put(asterisk_config, key, value)
         IN  MergeAsterisk(merged, variant_asterisk, keys \ {key})

\* _resolve_asterisk_config
_resolve_asterisk_config(template, context) ==
    LET variant_asterisk == Get(context.variant_config, "asterisk", EmptyDict)
        merged == MergeAsterisk(Get(template, "asterisk", EmptyDict), variant_asterisk,
                                DOMAIN variant_asterisk)
    IN  IF Contains(context.version, CERT) THEN Put(merged, "source", CertifiedSource)
        ELSE IF ~Has(merged, "source") THEN Put(merged, "source", ReleaseSource)
        ELSE merged

\* _resolve_base_config
_resolve_base_config(template, context) ==
    Put(Update(Get(template, "base", EmptyDict), Get(context.distribution_config, "base", EmptyDict)),
        "distribution", <<context.distribution>>)

\* '.'.join(asterisk_version.split('.')[:2]): the text before the second dot
MajorMinorText(v) ==
    LET dots == {i \in 1..Len(v) : v[i] = "."}
        second == {i \in dots : Cardinality({j \in dots : j < i}) = 1}
    IN  IF second = {} THEN v ELSE SubSeq(v, 1, (CHOOSE i \in second : TRUE) - 1)

\* _get_addons_version
_get_addons_version(v) ==
    LET major_version == MajorMinorText(v)
    IN  IF major_version = <<"1", ".", "2">> THEN <<"1", ".", "2", ".", "9">>
        ELSE IF major_version = <<"1", ".", "4">> THEN <<"1", ".", "4", ".", "9">>
        ELSE IF major_version = <<"1", ".", "6">> THEN <<"1", ".", "6", ".", "2", ".", "4">>
        ELSE v

\* text.replace(placeholder, value, 1): the first occurrence only
RECURSIVE ReplaceFirstPiece(_, _, _)
ReplaceFirstPiece(text, placeholder, value) ==
    IF text = <<>> THEN <<>>
    ELSE IF Head(text) = placeholder THEN value \o Tail(text)
         ELSE <<Head(text)>> \o ReplaceFirstPiece(Tail(text), placeholder, value)

\* text.replace(placeholder, value)
RECURSIVE ReplacePiece(_, _, _)
ReplacePiece(text, placeholder, value) ==
    IF text = <<>> THEN <<>>
    ELSE (IF Head(text) = placeholder THEN value ELSE <<Head(text)>>)
         \o ReplacePiece(Tail(text), placeholder, value)

\* the four replacements of _substitute_variables, in their order, on one
\* text of the dumped configuration
SubstituteText(text, context) ==
    LET t1 == ReplacePiece(text, "{{VERSION}}", context.version)
        t2 == ReplacePiece(t1, "{{DISTRIBUTION}}", <<context.distribution>>)
        t3 == ReplacePiece(t2, "{{VARIANT}}", <<context.variant>>)
    IN  IF context.variant = "legacy-addons"
        THEN ReplacePiece(t3, "{{ADDONS_VERSION}}", _get_addons_version(context.version))
        ELSE t3

\* the same replacements on the text of a key.  A key is one piece: a key
\* that is the distribution or the variant placeholder becomes the name.
SubstituteKey(key, context) ==
    LET k1 == IF key = "{{DISTRIBUTION}}" THEN context.distribution ELSE key
    IN  IF k1 = "{{VARIANT}}" THEN context.variant ELSE k1

Root == "root"

\* the value under key of the mapping found under parent is a mapping
IsMappingAt(parent, key) ==
    \/ (parent = Root /\ key # "version")
    \/ (parent = "asterisk" /\ IsDictKey(key))
    \/ (parent = "docker" /\ key \in {"healthcheck", "networking", "labels"})

\* the value under key of the mapping found under parent is a text
IsTextAt(parent, key) ==
    \/ (parent = "base" /\ key \in {"image", "distribution"})
    \/ (parent = "addons" /\ key = "version")

\* yaml.dump, the replacements, yaml.safe_load, on the mapping found under
\* parent: the replacements act on the whole dumped text, keys included.  Of
\* two keys whose texts become equal, the one dumped later is the one loaded:
\* keys are dumped in sorted order, a placeholder after a name.
RECURSIVE SubstituteTree(_, _, _)
SubstituteTree(d, context, parent) ==
    LET Origin(n) ==
            IF Has(d, "{{VARIANT}}") /\ SubstituteKey("{{VARIANT}}", context) = n
            THEN "{{VARIANT}}"
            ELSE IF Has(d, "{{DISTRIBUTION}}") /\ SubstituteKey("{{DISTRIBUTION}}", context) = n
            THEN "{{DISTRIBUTION}}"
            ELSE n
        Value(k) ==
            IF IsMappingAt(parent, k) THEN SubstituteTree(d[k], context, k)
            ELSE IF IsTextAt(parent, k) THEN SubstituteText(d[k], context)
            ELSE d[k]
    IN  [n \in {SubstituteKey(k, context) : k \in DOMAIN d} |-> Value(Origin(n))]

\* _substitute_variables
_substitute_variables(config, context) == SubstituteTree(config, context, Root)

\* re.match(r'^(\d+)\.(\d+)', base_version)
MajorMinorMatch(s) ==
    LET n1 == DigitRun(s, 1)
    IN  n1 > 0 /\ n1 + 1 <= Len(s) /\ s[n1 + 1] = "." /\ DigitRun(s, n1 + 2) > 0

\* the major version _apply_version_overrides works with, -1 when the
\* version cannot be parsed and the overrides are skipped
OverrideMajor(v) ==
    IF v = GIT \/ StartsWith(v, GIT_DASH) THEN 99
    ELSE LET base_version == SplitFirst(v, CERT)
         IN  IF MajorMinorMatch(base_version)
             THEN ToInt(SubSeq(base_version, 1, DigitRun(base_version, 1)))
             ELSE -1

\* list.append(x) unless x is in the list
AppendIfMissing(l, x) == IF x \in ToSet(l) THEN l ELSE Append(l, x)

\* _apply_version_overrides
_apply_version_overrides(config, v) ==
    LET major == OverrideMajor(v)
    IN  IF major < 12 THEN config
        ELSE LET asterisk == Get(config, "asterisk", EmptyDict)
                 ms == Get(asterisk, "menuselect", EmptyDict)
                 channels == Get(ms, "channels", <<>>)
                 exclude == Get(ms, "exclude", <<>>)
                 exclude2 == IF major >= 21 THEN AppendIfMissing(exclude, "chan_sip")
                             ELSE exclude
                 channels2 == IF major >= 23 THEN AppendIfMissing(channels, "chan_websocket")
                              ELSE channels
                 ms2 == Put(Put(ms, "channels", channels2), "exclude", exclude2)
                 config2 == Put(config, "asterisk", Put(asterisk, "menuselect", ms2))
             IN  IF major >= 23
                 THEN Put(config2, "features",
                          Put(Get(config2, "features", EmptyDict), "websockets", TRUE))
                 ELSE config2

\* duplicates removed, last occurrences kept in order
RECURSIVE KeepLast(_)
KeepLast(l) ==
    IF l = <<>> THEN <<>>
    ELSE IF Head(l) \in ToSet(Tail(l)) THEN KeepLast(Tail(l))
         ELSE <<Head(l)>> \o KeepLast(Tail(l))

\* list(dict.fromkeys(l)): duplicates removed, first occurrences kept in order
RECURSIVE Dedupe(_)
Dedupe(l) ==
    IF l = <<>> THEN <<>>
    ELSE LET init == Dedupe(SubSeq(l, 1, Len(l) - 1))
         IN  IF l[Len(l)] \in ToSet(init) THEN init ELSE Append(init, l[Len(l)])

\* _resolve_packages
_resolve_packages(context) ==
    LET dist_overrides == Get(context.distribution_config, "package_overrides", EmptyDict)
        variant_packages == Get(context.variant_config, "packages", EmptyDict)
    IN  [build |-> Dedupe(Get(context.base_packages, "common_build_packages", <<>>)
                          \o Get(dist_overrides, "build", <<>>)
                          \o Get(variant_packages, "build", <<>>)),
         runtime |-> Dedupe(Get(context.base_packages, "common_runtime_packages", <<>>)
                            \o Get(dist_overrides, "runtime", <<>>)
                            \o Get(variant_packages, "runtime", <<>>))]

\* _resolve_docker_config
_resolve_docker_config(template, context) ==
    Update(Update(Get(template, "docker", EmptyDict),
                  Get(context.distribution_config, "docker", EmptyDict)),
           Get(context.variant_config, "docker", EmptyDict))

\* what a loader gets when the file is not found
FileNotFound == [file_not_found |-> TRUE]

\* the TemplateContext generate_config creates; distribution_file and
\* variant_file are what the layer files hold, FileNotFound when there is no
\* such file
NewTemplateContext(dry, v, distribution_arg, variant_arg, distribution_file, variant_file) ==
    LET distribution == IF distribution_arg = None THEN _determine_distribution(v)
                        ELSE distribution_arg
        variant == IF variant_arg = None THEN _determine_variant(v) ELSE variant_arg
    IN  [version |-> v, distribution |-> distribution, variant |-> variant,
         base_packages |-> dry.base_packages,
         distribution_config |->
             IF distribution_file = FileNotFound THEN [distribution |-> distribution]
             ELSE distribution_file,
         variant_config |->
             IF variant_file = FileNotFound THEN [variant |-> variant] ELSE variant_file]

\* the configuration generate_config builds from the layers, before the
\* variables are substituted
LayeredConfig(dry, context) ==
    LET packages == _resolve_packages(context)
        config == [version |-> context.version,
                   base |-> _resolve_base_config(dry.base_template, context),
                   packages |->
                       IF Get(context.distribution_config, "eol", FALSE)
                       THEN Put(packages, "eol_setup",
                                Get(context.distribution_config, "eol_setup", <<>>))
                       ELSE packages,
                   asterisk |-> _resolve_asterisk_config(dry.base_template, context),
                   docker |-> _resolve_docker_config(dry.base_template, context),
                   build |-> Get(dry.base_template, "build", EmptyDict)]
    IN  IF Has(context.variant_config, "features")
        THEN Put(config, "features", context.variant_config["features"])
        ELSE config

\* generate_config from the context on
ConfigFromContext(dry, context) ==
    _apply_version_overrides(_substitute_variables(LayeredConfig(dry, context), context),
                             context.version)

\* DRYTemplateGenerator.generate_config
DRY_generate_config(dry, v, distribution_arg, variant_arg, distribution_file, variant_file) ==
    ConfigFromContext(dry, NewTemplateContext(dry, v, distribution_arg, variant_arg,
                                              distribution_file, variant_file))

(***************************************************************************)
(* The module-selection command list and DockerfileGenerator's build       *)
(* context.  A command is the pair of its option and its argument: the     *)
(* tool and the makefile are the same in every command.                    *)
(***************************************************************************)
Command(option, name) == <<option, name>>

\* the commands of one option for the names of a list, in the list's order
CommandsFor(option, names) == [i \in 1..Len(names) |-> Command(option, names[i])]

\* the two commands every list starts with
StandardCommands ==
    <<Command("--disable", "BUILD_NATIVE"), Command("--enable", "BETTER_BACKTRACES")>>

\* MenuSelectGenerator.generate_menuselect_commands
generate_menuselect_commands(cfg) ==
    StandardCommands
    \o CommandsFor("--disable-category", cfg.disable_categories)
    \o CommandsFor("--enable", cfg.enable)
    \o CommandsFor("--disable", cfg.disable)

\* menuselect_config.get(key, menuselect_config.get(other, []))
GetEither(d, key, other) == Get(d, key, Get(d, other, <<>>))

\* DockerfileGenerator._convert_yaml_menuselect_to_commands
_convert_yaml_menuselect_to_commands(menuselect_config) ==
    StandardCommands
    \o CommandsFor("--disable-category",
                   <<"MENUSELECT_CORE_SOUNDS", "MENUSELECT_MOH", "MENUSELECT_EXTRA_SOUNDS">>)
    \o CommandsFor("--enable", GetEither(menuselect_config, "apps", "enable_apps"))
    \o CommandsFor("--enable", GetEither(menuselect_config, "channels", "enable_channels"))
    \o CommandsFor("--enable", GetEither(menuselect_config, "drivers", "enable_resources"))
    \o CommandsFor("--disable", Get(menuselect_config, "disable_modules", <<>>))
    \o CommandsFor("--disable", Get(menuselect_config, "exclude", <<>>))

\* truth value of a dict or a list: not empty
Truthy(x) == x # <<>>

\* the keys whose lists make prepare_build_context use the YAML menuselect
YamlEnableKeys ==
    {"apps", "channels", "drivers", "enable_apps", "enable_channels", "enable_resources"}

\* yaml_menuselect and any(yaml_menuselect.get(k) for k in [...])
UsesYamlMenuselect(yaml_menuselect) ==
    /\ Truthy(yaml_menuselect)
    /\ \E k \in YamlEnableKeys : Has(yaml_menuselect, k) /\ Truthy(yaml_menuselect[k])

\* int(s) succeeds: an optional sign and digits
IntLiteral(s) ==
    \/ (s # <<>> /\ \A i \in 1..Len(s) : IsDigit(s[i]))
    \/ (Len(s) >= 2 /\ s[1] \in {"-", "+"} /\ \A i \in 2..Len(s) : IsDigit(s[i]))

\* a statement of prepare_build_context raises: a key is missing, the
\* fallback MenuSelectGenerator rejects the version, or int() rejects
\* version.split('.')[0]
PrepareRaises(cfg) ==
    \/ ~Has(cfg, "version")
    \/ ~Has(cfg, "base")
    \/ /\ ~UsesYamlMenuselect(Get(Get(cfg, "asterisk", EmptyDict), "menuselect", EmptyDict))
       /\ ~_parse_version(cfg["version"]).ok
    \/ /\ ~IsGitVersion(cfg["version"])
       /\ ~IntLiteral(SplitFirst(cfg["version"], <<".">>))

\* None as the value of a text
NullText == <<"null">>

DefaultSource ==
    [url_template |->
         "https://downloads.asterisk.org/pub/telephony/asterisk/releases/asterisk-{version}.tar.gz"]

DefaultFeatures == [recordings |-> TRUE, hep |-> TRUE, pjsip |-> TRUE, ari |-> TRUE]

DefaultHealthcheck ==
    [enabled |-> TRUE, command |-> "/usr/local/bin/healthcheck.sh", interval |-> "30s",
     timeout |-> "10s", start_period |-> "30s", retries |-> 3]

DefaultNetworking ==
    [ports |-> <<"5060/udp", "5060/tcp", "5061/tcp", "10000-10099/udp">>]

\* what prepare_build_context leaves in the configuration object it was
\* given: the subtrees it reads with config.get are changed in place when the
\* configuration has them
ConfigAfterPrepare(cfg) ==
    LET packages_config == Get(cfg, "packages", EmptyDict)
        build_config == Get(cfg, "build", EmptyDict)
        stages == Get(build_config, "stages", EmptyDict)
        build_packages == IF Truthy(packages_config) THEN Get(packages_config, "build", <<>>)
                          ELSE Get(Get(stages, "builder", EmptyDict), "packages", <<>>)
        runtime_packages == IF Truthy(packages_config)
                            THEN Get(packages_config, "runtime", <<>>)
                            ELSE Get(Get(stages, "runtime", EmptyDict), "packages", <<>>)
        build2 == IF ~Truthy(stages) /\ Truthy(packages_config)
                  THEN Put(build_config, "stages",
                           [builder |-> [packages |-> build_packages],
                            runtime |-> [packages |-> runtime_packages, slim |-> TRUE]])
                  ELSE build_config
        asterisk_config == Get(cfg, "asterisk", EmptyDict)
        asterisk2 == IF ~Truthy(Get(asterisk_config, "addons", EmptyDict))
                     THEN Put(asterisk_config, "addons", [version |-> NullText])
                     ELSE asterisk_config
        asterisk3 == IF ~Truthy(Get(asterisk2, "source", EmptyDict))
                     THEN Put(asterisk2, "source", DefaultSource)
                     ELSE asterisk2
        docker_config == Get(cfg, "docker", EmptyDict)
        docker2 == IF ~Truthy(Get(docker_config, "healthcheck", EmptyDict))
                   THEN Put(docker_config, "healthcheck", DefaultHealthcheck)
                   ELSE docker_config
        docker3 == IF ~Truthy(Get(docker2, "networking", EmptyDict))
                   THEN Put(docker2, "networking", DefaultNetworking)
                   ELSE docker2
        c1 == IF Has(cfg, "build") THEN Put(cfg, "build", build2) ELSE cfg
        c2 == IF Has(cfg, "asterisk") THEN Put(c1, "asterisk", asterisk3) ELSE c1
        c3 == IF ~Truthy(Get(c2, "features", EmptyDict))
              THEN Put(c2, "features", DefaultFeatures)
              ELSE c2
    IN  Put(c3, "docker", docker3)

\* the BuildContext prepare_build_context returns; its config field is the
\* configuration object itself
NoContext ==
    [build_packages |-> <<>>, runtime_packages |-> <<>>,
     menuselect_config |-> NoMenuSelectConfig, menuselect_commands |-> <<>>,
     configure_options |-> <<>>, is_multi_stage |-> FALSE]

prepare_build_context(cfg) ==
    LET build_config == Get(cfg, "build", EmptyDict)
        asterisk_config == Get(cfg, "asterisk", EmptyDict)
        feats == Get(cfg, "features", EmptyDict)
        packages_config == Get(cfg, "packages", EmptyDict)
        stages == Get(build_config, "stages", EmptyDict)
        yaml_menuselect == Get(asterisk_config, "menuselect", EmptyDict)
        yaml == UsesYamlMenuselect(yaml_menuselect)
        menuselect_config == IF yaml THEN NoMenuSelectConfig
                             ELSE generate_config(NewGenerator(cfg["version"]), feats)
        configure == Get(Get(asterisk_config, "configure", EmptyDict), "options", <<>>)
    IN  [build_packages |->
             IF Truthy(packages_config) THEN Get(packages_config, "build", <<>>)
             ELSE Get(Get(stages, "builder", EmptyDict), "packages", <<>>),
         runtime_packages |->
             IF Truthy(packages_config) THEN Get(packages_config, "runtime", <<>>)
             ELSE Get(Get(stages, "runtime", EmptyDict), "packages", <<>>),
         menuselect_config |-> menuselect_config,
         menuselect_commands |->
             IF yaml THEN _convert_yaml_menuselect_to_commands(yaml_menuselect)
             ELSE generate_menuselect_commands(menuselect_config),
         configure_options |->
             IF Truthy(configure) THEN configure
             ELSE Get(yaml_menuselect, "configure_options", <<>>),
         is_multi_stage |-> Get(build_config, "type", "multi-stage") = "multi-stage"]

(***************************************************************************)
(* The explored inputs.                                                    *)
(***************************************************************************)
\* what may follow MAJOR.MINOR in a numbered version identifier
CertTails == {CERT \o Str(n) : n \in 1..MaxCert}

Tails ==
    {<<>>, <<".", "0">>, <<".", "3", "2", ".", "3">>, <<"-", "r", "c", "1">>,
     <<".", "0", "a", "b", "c">>, <<"x">>}
    \cup CertTails
    \cup {<<".", "4">> \o c : c \in CertTails}

NumberedVersions ==
    {Str(major) \o <<".">> \o Str(minor) \o tail :
        major \in 0..MaxMajor, minor \in 0..MaxMinor, tail \in Tails}

OtherVersions ==
    {GIT, GIT_DASH \o <<"a", "1">>, GIT_DASH \o CERT \o <<"1">>, GIT \o <<"x">>,
     <<"a", "b", "c">>, <<>>, <<"2", "2">>, <<"2", "2", ".">>, <<".", "5">>,
     CERT \o <<"1">>, <<"v", "2", "2", ".", "6">>, <<"2", "2", "-", "6">>}

Versions == NumberedVersions \cup OtherVersions

\* the flag mappings handed to generate_config: every combination of the six
\* flags, the same with the flags that are on left out, mappings with keys
\* outside the six, and the call without flags
AllFlags == [FlagNames -> BOOLEAN]

OnlyOff(f) == [k \in {x \in FlagNames : ~f[x]} |-> FALSE]

FeatureInputs ==
    AllFlags
    \cup {OnlyOff(f) : f \in AllFlags}
    \cup {[websockets |-> FALSE, ari |-> TRUE], DefaultFeatures,
          [websocket |-> FALSE, recordings |-> FALSE], NoFlags}

\* what the files under the templates directory hold
TemplateStores ==
    {[base_packages |-> EmptyDict, base_template |-> EmptyDict],
     [base_packages |->
          [common_build_packages |-> <<"build-essential", "libssl-dev">>,
           common_runtime_packages |-> <<"libssl3", "ca-certificates">>],
      base_template |->
          [base |-> [os |-> "debian", image |-> <<"debian:", "{{DISTRIBUTION}}", "-slim">>],
           asterisk |->
               [menuselect |-> [channels |-> <<"chan_iax2">>, exclude |-> <<"chan_dahdi">>],
                configure |-> [options |-> <<"--with-jansson-bundled">>]],
           docker |->
               [healthcheck |-> [enabled |-> TRUE], labels |-> ("{{VARIANT}}" :> TRUE)],
           build |-> [type |-> "multi-stage"]]]}

DistributionFiles ==
    {FileNotFound,
     [distribution |-> "bookworm",
      package_overrides |->
          [build |-> <<"libssl-dev", "libncurses-dev">>, runtime |-> <<"libncurses6">>],
      base |-> [image |-> <<"registry/", "{{DISTRIBUTION}}", "/debian:", "{{DISTRIBUTION}}">>],
      eol |-> TRUE,
      eol_setup |-> <<"archive.debian.org">>]}

VariantFiles ==
    {FileNotFound,
     [variant |-> "modern",
      asterisk |->
          [menuselect |->
               [channels |-> <<"chan_pjsip", "chan_sip", "chan_websocket">>,
                apps |-> <<"app_dial">>],
           addons |-> [version |-> <<"{{ADDONS_VERSION}}">>]],
      packages |-> [build |-> <<"libxml2-dev", "libssl-dev">>],
      features |-> [websockets |-> FALSE, ari |-> TRUE]],
     [variant |-> "legacy",
      asterisk |->
          [menuselect |->
               [channels |-> <<"chan_sip", "chan_iax2">>, drivers |-> <<"res_crypto">>,
                disable_modules |-> <<"chan_misdn">>],
           configure |-> [options |-> <<"--without-pjproject">>]],
      docker |->
          [healthcheck |-> [interval |-> "60s"], networking |-> [ports |-> <<"5060/udp">>]],
      features |-> [websocket |-> FALSE]]}

\* the distribution and variant arguments of generate_config, None when the
\* caller leaves the choice to the generator
ResolveArguments ==
    {<<None, None>>, <<"bookworm", "legacy-addons">>, <<"{{VERSION}}", None>>}

(***************************************************************************)
(* State.                                                                  *)
(***************************************************************************)
VARIABLES
    version,      \* the version identifier the caller supplies
    pc,           \* where the caller is
    generator,    \* the MenuSelectGenerator object, NoGen while there is none
    features,     \* the flags of the last generate_config call
    menuselect,   \* the MenuSelectConfig the last generate_config call returned
    dry,          \* the DRYTemplateGenerator object: what its constructor loaded
    template_context,  \* the TemplateContext DRYTemplateGenerator.generate_config created
    config,       \* the configuration DRYTemplateGenerator.generate_config returned
    context,      \* the BuildContext prepare_build_context returned
    batch,        \* the batch operation under way: its items and what it recorded
    templates_dir, \* the base files of the templates directory, as the constructor of dry read them
    table,        \* the rows of the README version table: their versions, and whether sorted yet
    exclude_catalog \* the EXCLUDE_MODULES list of the generator's class

vars == <<version, pc, generator, features, menuselect, dry, template_context, config, context, batch, templates_dir, table, exclude_catalog>>

\* no batch operation
NoBatch == [op |-> None, items |-> <<>>, outcomes |-> <<>>, total |-> 0, pc |-> "idle"]

\* no table rows collected
NoTable == [versions |-> <<>>, pc |-> "idle"]

NoDry == [base_packages |-> EmptyDict, base_template |-> EmptyDict]

NoConfig == EmptyDict

NoTemplateContext ==
    [version |-> <<>>, distribution |-> None, variant |-> None, base_packages |-> EmptyDict,
     distribution_config |-> EmptyDict, variant_config |-> EmptyDict]

Init ==
    /\ version \in Versions
    /\ pc = "start"
    /\ generator = NoGen
    /\ features = <<>>
    /\ menuselect = NoMenuSelectConfig
    /\ dry = NoDry
    /\ template_context = NoTemplateContext
    /\ config = NoConfig
    /\ context = NoContext
    /\ batch = NoBatch
    /\ templates_dir = NoDry
    /\ table = NoTable
    /\ exclude_catalog = EXCLUDE_MODULES

\* MenuSelectGenerator(version): the object is built, or ValueError is raised
\* and there is no object
Construct ==
    /\ pc = "start"
    /\ IF _parse_version(version).ok
       THEN generator' = NewGenerator(version) /\ pc' = "ready"
       ELSE generator' = NoGen /\ pc' = "invalid"
    /\ UNCHANGED <<version, features, menuselect, dry, template_context, config, context, batch, templates_dir, table, exclude_catalog>>

\* generator.generate_config(features)
GenerateConfig ==
    /\ pc = "ready"
    /\ \E f \in FeatureInputs :
          /\ features' = f
          /\ menuselect' = generate_config(generator, f)
    /\ pc' = "selected"
    /\ UNCHANGED <<version, generator, dry, template_context, config, context, batch, templates_dir, table, exclude_catalog>>

\* DRYTemplateGenerator(templates_dir): the base files are loaded
LoadTemplates ==
    /\ pc = "start"
    /\ templates_dir' \in TemplateStores
    /\ dry' = templates_dir'
    /\ pc' = "loaded"
    /\ UNCHANGED <<version, generator, features, menuselect, template_context, config, context, batch, table, exclude_catalog>>

\* Object identity.  generate_config works on dictionaries it takes from
\* base_template; a write to a working dictionary reaches base_template when
\* the working dictionary is the template's own object.
\* deepcopy(obj), obj an object of `owner`: the copy is a new object
SameObject(owner) == owner

deepcopy(owner) == "fresh"

\* base_template once the working dictionary taken from base_template[key]
\* holds `value`; base_template.get(key, {}) of an absent key is a new dict
WriteBack(template, key, object, value) ==
    IF object = "base_template" /\ Has(template, key) THEN Put(template, key, value)
    ELSE template

\* the generator object after generate_config ran on the context:
\* _resolve_base_config, _resolve_asterisk_config and _resolve_docker_config
\* each write into their copy of a base_template subtree
StoreAfterGenerate(store, template_ctx) ==
    LET t0 == store.base_template
        t1 == WriteBack(t0, "base", deepcopy("base_template"),
                        _resolve_base_config(t0, template_ctx))
        t2 == WriteBack(t1, "asterisk", deepcopy("base_template"),
                        _resolve_asterisk_config(t1, template_ctx))
        t3 == WriteBack(t2, "docker", deepcopy("base_template"),
                        _resolve_docker_config(t2, template_ctx))
    IN  [store EXCEPT !.base_template = t3]

\* one call dry.generate_config(v, distribution, variant)
generate_config_call(v) ==
    \E args \in ResolveArguments, distribution_file \in DistributionFiles,
       variant_file \in VariantFiles :
       /\ template_context' = NewTemplateContext(dry, v, args[1], args[2],
                                                 distribution_file, variant_file)
       /\ config' = DRY_generate_config(dry, v, args[1], args[2],
                                        distribution_file, variant_file)
       /\ dry' = StoreAfterGenerate(dry, template_context')

\* dry.generate_config(version, distribution, variant); no statement of it
\* raises on the inputs explored, so a configuration is always returned
ResolveConfig ==
    /\ pc = "loaded"
    /\ generate_config_call(version)
    /\ pc' = "resolved"
    /\ UNCHANGED <<version, generator, features, menuselect, context, batch, templates_dir, table, exclude_catalog>>

\* DockerfileGenerator.prepare_build_context(config) on the resolved
\* configuration: the context is returned and the configuration object is
\* left changed, or ValueError is raised before any change
PrepareBuildContext ==
    /\ pc = "resolved"
    /\ IF PrepareRaises(config)
       THEN pc' = "prepare_failed" /\ UNCHANGED <<config, context>>
       ELSE /\ pc' = "prepared"
            /\ context' = prepare_build_context(config)
            /\ config' = ConfigAfterPrepare(config)
    /\ UNCHANGED <<version, generator, features, menuselect, dry, template_context, batch, templates_dir, table, exclude_catalog>>

Next == Construct \/ GenerateConfig \/ LoadTemplates \/ ResolveConfig \/ PrepareBuildContext

Spec == Init /\ [][Next]_vars

\* the flag mapping of the call holds the flag, switched on / switched off
FlagOn(k) == k \in DOMAIN features /\ features[k]

FlagOff(k) == k \in DOMAIN features /\ ~features[k]

(***************************************************************************)
(* Properties of module selection.                                         *)
(***************************************************************************)
Enabled == ToSet(menuselect.enable)

Disabled == ToSet(menuselect.disable)

\* C1: a module selection returned by generate_config never has a module in
\* both its enable list and its disable list.
EnableDisableDisjoint == pc = "selected" => Enabled \cap Disabled = {}

EnableDisableBothFilled ==
    pc = "selected" /\ generator.major = 22 /\ Enabled # {} /\ Disabled # {}

WebSocketModules == {"chan_websocket", "res_http_websocket", "res_websocket_client"}

\* C2: from major 23 on, the development tip included, chan_websocket, the
\* WebSocket resource modules and every ARI module are enabled whatever the
\* feature flags are.
ForcedFrom23 ==
    (pc = "selected" /\ generator.major >= 23)
        => (WebSocketModules \cup ToSet(RESOURCE_MODULES.ari)) \subseteq Enabled

ForcedFrom23FlagsOff ==
    /\ pc = "selected"
    /\ generator.major = 23
    /\ FlagOff("websocket")
    /\ FlagOff("ari")
    /\ "res_ari_events" \in Enabled

\* C3: from major 21 on, chan_sip is in the disable list and not in the
\* enable list.
ChanSipDisabledFrom21 ==
    (pc = "selected" /\ generator.major >= 21)
        => ("chan_sip" \in Disabled /\ "chan_sip" \notin Enabled)

\* C4: no always-excluded module is enabled, and every always-excluded module
\* is in the disable list.
ExcludedNeverEnabled ==
    pc = "selected"
        => \A m \in ToSet(EXCLUDE_MODULES) : m \notin Enabled /\ m \in Disabled

ExcludedAllFlagsOn ==
    /\ pc = "selected"
    /\ \A k \in FlagNames : FlagOn(k)
    /\ "chan_dahdi" \in Disabled
    /\ "chan_pjsip" \in Enabled

\* C5: exactly one of the two conferencing applications is enabled:
\* app_confbridge at or above the conferencing-bridge threshold (major 10,
\* not legacy), app_meetme below it.
ConferencingExclusive ==
    pc = "selected"
        => LET modern == ~generator.is_legacy /\ generator.major >= 10
           IN  /\ ("app_confbridge" \in Enabled) = modern
               /\ ("app_meetme" \in Enabled) = ~modern

PjsipFamily == {"chan_pjsip"} \cup ToSet(RESOURCE_MODULES.pjsip)

\* C6: a module of the PJSIP family is enabled only for a version that
\* supports PJSIP (major 12 or more) and is not legacy.
PjsipOnlyFrom12 ==
    pc = "selected"
        => \A m \in PjsipFamily :
              m \in Enabled => (generator.major >= 12 /\ ~generator.is_legacy)

\* the grammar MAJOR.MINOR[.PATCH][-(alpha|beta|rc)N][-certN], matched against
\* the whole of s from position i on
AllDigits(s) == \A i \in 1..Len(s) : IsDigit(s[i])

CertPart(s) == s = <<>> \/ (StartsWith(s, CERT) /\ AllDigits(From(s, Len(CERT) + 1)))

PreReleasePart(s) ==
    \/ CertPart(s)
    \/ \E tag \in {ALPHA, BETA, RC} :
          /\ StartsWith(s, tag)
          /\ CertPart(From(s, Len(tag) + 1 + DigitRun(s, Len(tag) + 1)))

PatchPart(s) ==
    \/ PreReleasePart(s)
    \/ /\ Len(s) >= 2
       /\ s[1] = "."
       /\ DigitRun(s, 2) > 0
       /\ PreReleasePart(From(s, 2 + DigitRun(s, 2)))

MatchesGrammar(s) ==
    LET n1 == DigitRun(s, 1)
        n2 == DigitRun(s, n1 + 2)
    IN  /\ n1 > 0
        /\ n1 + 1 <= Len(s)
        /\ s[n1 + 1] = "."
        /\ n2 > 0
        /\ PatchPart(From(s, n1 + 2 + n2))

DevelopmentTip(s) == s = GIT \/ StartsWith(s, GIT_DASH)

\* C7: constructing the generator fails, and produces no generator object,
\* for every string that is neither a development-tip token nor a complete
\* match of the version grammar.
RejectsNonGrammar ==
    (pc # "start" /\ ~DevelopmentTip(version) /\ ~MatchesGrammar(version))
        => (pc = "invalid" /\ generator = NoGen)

\* C8: resolving a configuration for a version string that does not match
\* the version grammar, such as "abc", fails and returns no configuration.
ResolveRejectsNonGrammar ==
    (~DevelopmentTip(version) /\ ~MatchesGrammar(version))
        => (pc # "resolved" /\ config = NoConfig)

Release23 == <<"2", "3", ".", "0", ".", "0">>

\* C9: the module selection of a development-tip version equals that of the
\* newest numbered release, major 23, with the same flags.
GitLikeNewestRelease ==
    (pc = "selected" /\ DevelopmentTip(version))
        => menuselect = generate_config(NewGenerator(Release23), features)

GitSelectedFlagsOff ==
    /\ pc = "selected"
    /\ version = GIT_DASH \o <<"a", "1">>
    /\ FlagOff("websocket")
    /\ FlagOff("ari")
    /\ "chan_websocket" \in Enabled

CertNumbers == {Str(n) : n \in 1..MaxCert}

EndsWith(s, p) == Len(s) >= Len(p) /\ From(s, Len(s) - Len(p) + 1) = p

IsCertified(v) == \E n \in CertNumbers : EndsWith(v, CERT \o n)

WithoutCert(v) ==
    LET n == CHOOSE c \in CertNumbers : EndsWith(v, CERT \o c)
    IN  SubSeq(v, 1, Len(v) - Len(CERT \o n))

\* C10: the certified-build marker does not affect module selection: the
\* outcome for "V-certN" is the outcome for V, a rejection when V is rejected
\* and otherwise the same enable, disable and disabled-category lists.
CertMarkerIgnored ==
    (pc \in {"invalid", "selected"} /\ IsCertified(version))
        => LET V == WithoutCert(version)
           IN  IF _parse_version(V).ok
               THEN /\ pc = "selected"
                    /\ menuselect = generate_config(NewGenerator(V), features)
               ELSE pc = "invalid"

CertifiedSelected ==
    /\ pc = "selected"
    /\ version = <<"1", "3", ".", "4">> \o CERT \o <<"2">>
    /\ generator.major = 13
    /\ "res_pjsip" \in Enabled

\* the place of each module name in ascending string order
RankOf ==
    [m \in ToSet(ModuleOrder) |-> CHOOSE i \in 1..Len(ModuleOrder) : ModuleOrder[i] = m]

StrictlyAscending(l) == \A i \in 1..(Len(l) - 1) : RankOf[l[i]] < RankOf[l[i + 1]]

\* C11: the enable list and the disable list returned by generate_config
\* each hold no duplicate and are in ascending lexicographic order.
ListsSortedUnique ==
    pc = "selected"
        => StrictlyAscending(menuselect.enable) /\ StrictlyAscending(menuselect.disable)

\* a selection whose list as built held the ARI modules twice
SortedAfterDuplicates ==
    /\ pc = "selected"
    /\ generator.major >= 23
    /\ FlagOn("ari")
    /\ Len(AriStep(generator, features) \o WebsocketStep(generator, features)) > 15
    /\ Len(menuselect.enable) > 1
    /\ Len(menuselect.disable) > 1

\* the names of the commands of a list that carry the given option
NamesOf(option, cmds) ==
    LET chosen == SelectSeq(cmds, LAMBDA c : c[1] = option)
    IN  [i \in 1..Len(chosen) |-> chosen[i][2]]

Ascending(l) == \A i \in 1..(Len(l) - 1) : RankOf[l[i]] <= RankOf[l[i + 1]]

\* the commands after the two standard ones and the category directives
ModuleCommands(cmds) == SubSeq(cmds, 3 + Len(DISABLE_CATEGORIES), Len(cmds))

\* C12: the command list of a build context is: disable BUILD_NATIVE, enable
\* BETTER_BACKTRACES, the disable-category directives in catalog order, the
\* enable directives in sorted order, then the disable directives in sorted
\* order.
CommandsInFixedOrder ==
    pc = "prepared"
        => LET cmds == context.menuselect_commands
               enables == NamesOf("--enable", ModuleCommands(cmds))
               disables == NamesOf("--disable", ModuleCommands(cmds))
           IN  /\ cmds = StandardCommands
                         \o CommandsFor("--disable-category", DISABLE_CATEGORIES)
                         \o CommandsFor("--enable", enables)
                         \o CommandsFor("--disable", disables)
               /\ Ascending(enables)
               /\ Ascending(disables)

\* the mapping of the call with every absent flag written out as true and
\* every key outside the six flags left out
FlagsWrittenOut ==
    [k \in FlagNames |->
        IF features # NoFlags /\ k \in DOMAIN features THEN features[k] ELSE TRUE]

\* C13: generate_config returns for a flag mapping what it returns for the
\* mapping with the absent flags present and true and the keys outside the
\* six flags removed; the call without flags returns what all six true return.
AbsentFlagIsTrue ==
    pc = "selected" => menuselect = generate_config(generator, FlagsWrittenOut)

\* a selection for flags that lack websocket and hold a key outside the six
AbsentFlagSelected ==
    /\ pc = "selected"
    /\ features = [websockets |-> FALSE, ari |-> TRUE]
    /\ generator.major = 22
    /\ "res_http_websocket" \in Enabled
    /\ "res_hep" \in Enabled

\* the modules the websocket flag stands for: the WebSocket channel and
\* resource modules and the WebSocket transport of PJSIP
WebSocketFlagModules == WebSocketModules \cup {"res_pjsip_transport_websocket"}

\* C14: below major 23 a selection made with the websocket flag false enables
\* none of the WebSocket modules, the WebSocket transport of PJSIP included.
WebSocketOnlyByFlag ==
    (pc = "selected" /\ generator.major < 23 /\ FlagOff("websocket"))
        => Enabled \cap WebSocketFlagModules = {}

\* chan_pjsip and every catalog module whose name starts with res_pjsip
PjsipModules ==
    {"chan_pjsip", "res_pjsip", "res_pjsip_authenticator_digest", "res_pjsip_caller_id",
     "res_pjsip_endpoint_identifier_ip", "res_pjsip_endpoint_identifier_user",
     "res_pjsip_outbound_registration", "res_pjsip_registrar", "res_pjsip_sdp_rtp",
     "res_pjsip_session", "res_pjsip_transport_websocket"}

\* every catalog module whose name starts with res_ari
AriModules ==
    {"res_ari", "res_ari_applications", "res_ari_asterisk", "res_ari_bridges",
     "res_ari_channels", "res_ari_device_states", "res_ari_endpoints", "res_ari_events",
     "res_ari_mailboxes", "res_ari_model", "res_ari_playbacks", "res_ari_recordings",
     "res_ari_sounds"}

\* C15: for a legacy version (major 1, minor 2 to 8) and any flags, the
\* enable list holds chan_sip and app_meetme, no PJSIP module and no ARI
\* interface module.
LegacySelection ==
    (pc = "selected" /\ generator.major = 1 /\ generator.minor \in 2..8)
        => /\ "chan_sip" \in Enabled
           /\ "app_meetme" \in Enabled
           /\ Enabled \cap (PjsipModules \cup AriModules) = {}

\* version 1.8 selected with all six flags on
LegacyAllFlagsOn ==
    /\ pc = "selected"
    /\ generator.major = 1
    /\ generator.minor = 8
    /\ \A k \in FlagNames : FlagOn(k)
    /\ "chan_sip" \in Enabled

(***************************************************************************)
(* Properties of the resolved configuration.                               *)
(***************************************************************************)
\* the package lists of the three layers for a kind, in layer order
LayerPackages(kind) ==
    Get(template_context.base_packages,
        IF kind = "build" THEN "common_build_packages" ELSE "common_runtime_packages", <<>>)
    \o Get(Get(template_context.distribution_config, "package_overrides", EmptyDict), kind, <<>>)
    \o Get(Get(template_context.variant_config, "packages", EmptyDict), kind, <<>>)

\* the place of the first occurrence of x in l
FirstPlace(l, x) == CHOOSE i \in 1..Len(l) : l[i] = x /\ \A k \in 1..(i - 1) : l[k] # x

\* r holds every element of l once, in the order of the first occurrences
IsFirstOccurrences(r, l) ==
    /\ ToSet(r) = ToSet(l)
    /\ \A i, j \in 1..Len(r) : i < j => FirstPlace(l, r[i]) < FirstPlace(l, r[j])

\* C16: the resolved build and runtime package lists are the concatenation
\* of the base, distribution and variant lists with every later duplicate
\* removed: each package once, at the place of its first occurrence.
PackagesFirstOccurrences ==
    pc = "resolved"
        => \A kind \in {"build", "runtime"} :
              IsFirstOccurrences(config["packages"][kind], LayerPackages(kind))

\* a resolution whose three layers repeat a package, the result being in
\* an order that is not the sorted one
PackagesRepeatedAcrossLayers ==
    /\ pc = "resolved"
    /\ Len(LayerPackages("build")) = 6
    /\ config["packages"]["build"]
           = <<"build-essential", "libssl-dev", "libncurses-dev", "libxml2-dev">>
    /\ config["packages"]["runtime"] = <<"libssl3", "ca-certificates", "libncurses6">>

\* the keys of the explored layers whose value is a mapping
MappingKey(key) == IsDictKey(key) \/ key \in {"healthcheck", "networking"}

\* every key an earlier layer sets, at any depth, is set in the merged mapping
RECURSIVE KeysKept(_, _)
KeysKept(early, merged) ==
    \A k \in DOMAIN early :
        /\ k \in DOMAIN merged
        /\ MappingKey(k) => KeysKept(early[k], merged[k])

\* C17: the resolved asterisk, docker and base mappings are recursive merges
\* of their layers: a key an earlier layer sets inside a nested mapping is
\* still there after a later layer set a sibling key in the same mapping.
NestedKeysKept ==
    pc = "resolved"
        => /\ KeysKept(Get(dry.base_template, "asterisk", EmptyDict), config["asterisk"])
           /\ KeysKept(Get(dry.base_template, "docker", EmptyDict), config["docker"])
           /\ KeysKept(Get(template_context.distribution_config, "docker", EmptyDict),
                       config["docker"])
           /\ KeysKept(Get(dry.base_template, "base", EmptyDict), config["base"])

\* the version is the development tip or a version of the grammar whose major
\* number is 23 or more
MajorFrom23 ==
    \/ DevelopmentTip(version)
    \/ (MatchesGrammar(version) /\ ToInt(SubSeq(version, 1, DigitRun(version, 1))) >= 23)

\* how many times x occurs in l
CountOf(l, x) == Cardinality({i \in 1..Len(l) : l[i] = x})

\* the enabled channel list of the merged layers, before the overrides
LayeredChannels ==
    Get(Get(LayeredConfig(dry, template_context)["asterisk"], "menuselect", EmptyDict),
        "channels", <<>>)

\* C18: in the configuration resolved for a version with major 23 or more,
\* the development tip included, the enabled channel list holds
\* chan_websocket, added once when the merged layers lacked it and not added
\* otherwise, and module selection run on the configuration's features reads
\* the websocket flag as true.
WebSocketForcedInConfig ==
    (pc = "resolved" /\ MajorFrom23)
        => /\ CountOf(config["asterisk"]["menuselect"]["channels"], "chan_websocket")
                  = (IF CountOf(LayeredChannels, "chan_websocket") = 0 THEN 1
                     ELSE CountOf(LayeredChannels, "chan_websocket"))
           /\ Has(config, "features")
           /\ FeatureGet(config["features"], "websocket")

(***************************************************************************)
(* Properties of variable substitution.                                    *)
(***************************************************************************)
\* the merged layers generate_config hands to _substitute_variables, and
\* what _substitute_variables returns for them
Layered == LayeredConfig(dry, template_context)

Substituted == _substitute_variables(Layered, template_context)

Placeholders == {"{{VERSION}}", "{{DISTRIBUTION}}", "{{VARIANT}}", "{{ADDONS_VERSION}}"}

RECURSIVE KeyPaths(_, _)
KeyPaths(d, parent) ==
    {<<k>> : k \in DOMAIN d}
    \cup UNION {{<<k>> \o path : path \in KeyPaths(d[k], k)} :
                   k \in {x \in DOMAIN d : IsMappingAt(parent, x)}}

\* C20: _substitute_variables replaces placeholders in values only: the
\* keys at every level of the configuration tree are the same before and
\* after it, also when the text of a key holds a placeholder.
SubstitutionKeepsKeys ==
    pc = "resolved" => KeyPaths(Substituted, Root) = KeyPaths(Layered, Root)

(***************************************************************************)
(* Batch operations: generate_all_supported_configs of                     *)
(* DRYTemplateGenerator, generate_from_directory and generate_matrix_builds *)
(* of BatchGenerator.  An item is a version and what the file system does   *)
(* when the item's output file is written.                                  *)
(***************************************************************************)
MaxBatch == 3

BatchOps == {"generate_all_supported_configs", "generate_from_directory",
             "generate_matrix_builds"}

BatchVersions == {<<"2", "2", ".", "6">>, <<"a", "b", "c">>}

BatchItems == [version : BatchVersions, writable : BOOLEAN]

BatchInputs == UNION {[1..n -> BatchItems] : n \in 0..MaxBatch}

\* the configuration generate_matrix_builds writes for an item; the files
\* generate_from_directory reads hold configurations of the same shape
MatrixConfig(item) ==
    [version |-> item.version,
     base |-> [os |-> "debian", distribution |-> <<"trixie">>,
               image |-> <<"debian:", "trixie">>]]

\* DockerfileGenerator.generate_dockerfile raises for the item's
\* configuration file: prepare_build_context raises, or the output file
\* cannot be written
DockerfileRaises(item) == PrepareRaises(MatrixConfig(item)) \/ ~item.writable

\* the body of the try statement of generate_all_supported_configs raises:
\* generate_config returns for every version explored, save_config raises
\* when the file cannot be written
SaveRaises(item) == ~item.writable

\* the values of the other variables while a batch operation runs
OutsideBatch ==
    /\ version = <<>>
    /\ pc = "batch"
    /\ generator = NoGen
    /\ features = <<>>
    /\ menuselect = NoMenuSelectConfig
    /\ dry = NoDry
    /\ template_context = NoTemplateContext
    /\ config = NoConfig
    /\ context = NoContext
    /\ templates_dir = NoDry
    /\ table = NoTable
    /\ exclude_catalog = EXCLUDE_MODULES

main_vars ==
    <<version, pc, generator, features, menuselect, dry, template_context, config, context,
      templates_dir, table, exclude_catalog>>

BatchInit ==
    /\ OutsideBatch
    /\ \E op \in BatchOps, items \in BatchInputs :
          batch = [op |-> op, items |-> items, outcomes |-> <<>>, total |-> 0,
                   pc |-> "running"]

\* the item the loop is at
NextItem == batch.items[Len(batch.outcomes) + 1]

Recorded(outcome, counted) ==
    [batch EXCEPT !.outcomes = Append(@, outcome), !.total = @ + counted]

\* one pass of the inner loop of generate_all_supported_configs: the try
\* statement catches the exception and prints the failure
AllSupportedItem ==
    /\ batch.op = "generate_all_supported_configs"
    /\ batch.pc = "running"
    /\ Len(batch.outcomes) < Len(batch.items)
    /\ batch' = IF SaveRaises(NextItem) THEN Recorded("error", 0) ELSE Recorded("ok", 1)
    /\ UNCHANGED main_vars

\* one pass of the loop of generate_from_directory: the try statement
\* catches the exception and stores "ERROR: ..." as the item's result
FromDirectoryItem ==
    /\ batch.op = "generate_from_directory"
    /\ batch.pc = "running"
    /\ Len(batch.outcomes) < Len(batch.items)
    /\ batch' = IF DockerfileRaises(NextItem) THEN Recorded("error", 0)
                ELSE Recorded("ok", 1)
    /\ UNCHANGED main_vars

\* one pass of the inner loop of generate_matrix_builds: the try statement
\* has a finally clause and no except clause, so the exception leaves the
\* method once the temporary file is removed
MatrixItem ==
    /\ batch.op = "generate_matrix_builds"
    /\ batch.pc = "running"
    /\ Len(batch.outcomes) < Len(batch.items)
    /\ batch' = IF DockerfileRaises(NextItem) THEN [batch EXCEPT !.pc = "raised"]
                ELSE Recorded("ok", 1)
    /\ UNCHANGED main_vars

\* the loop is over: the operation returns what it counted or collected
BatchReturn ==
    /\ batch.pc = "running"
    /\ Len(batch.outcomes) = Len(batch.items)
    /\ batch' = [batch EXCEPT !.pc = "returned"]
    /\ UNCHANGED main_vars

BatchNext == AllSupportedItem \/ FromDirectoryItem \/ MatrixItem \/ BatchReturn

BatchSpec == BatchInit /\ [][BatchNext]_vars

\* the item fails in the operation of the batch
ItemFails(item) ==
    IF batch.op = "generate_all_supported_configs" THEN SaveRaises(item)
    ELSE DockerfileRaises(item)

\* C21: a batch operation that has ended processed every item: it recorded
\* an outcome for each, an error for each item that failed, it returned, and
\* the number of successes it reports is the number of items that did not
\* fail.
BatchIsolatesFailures ==
    batch.pc \in {"returned", "raised"}
        => /\ batch.pc = "returned"
           /\ Len(batch.outcomes) = Len(batch.items)
           /\ \A i \in 1..Len(batch.items) :
                 (batch.outcomes[i] = "error") = ItemFails(batch.items[i])
           /\ batch.total = Cardinality({i \in 1..Len(batch.items) : ~ItemFails(batch.items[i])})

(***************************************************************************)
(* Frame of the rendering side.                                            *)
(***************************************************************************)
\* C22: prepare_build_context leaves the configuration it is given as it
\* was: when the call returns its build context, the configuration object,
\* with its build, asterisk, features and docker subtrees, equals the
\* configuration before the call.
PrepareKeepsConfig ==
    [][pc = "resolved" /\ pc' = "prepared" => config' = config]_vars

(***************************************************************************)
(* Repeated resolution calls on one DRYTemplateGenerator.                  *)
(***************************************************************************)
RepeatVersions ==
    {<<"2", "2">>, <<"2", "3", ".", "1">>, <<"1", ".", "4", ".", "2">>, <<"1", "1", ".", "6">>,
     <<"2", "0", ".", "7">> \o CERT \o <<"2">>, GIT}

\* the generator is constructed, no call made yet
RepeatInit ==
    /\ version = <<>>
    /\ pc = "loaded"
    /\ generator = NoGen
    /\ features = <<>>
    /\ menuselect = NoMenuSelectConfig
    /\ templates_dir \in TemplateStores
    /\ dry = templates_dir
    /\ template_context = NoTemplateContext
    /\ config = NoConfig
    /\ context = NoContext
    /\ batch = NoBatch
    /\ table = NoTable
    /\ exclude_catalog = EXCLUDE_MODULES

\* a call of generate_config, the first or one that follows other calls
RepeatGenerateConfig ==
    /\ pc \in {"loaded", "resolved"}
    /\ \E v \in RepeatVersions : version' = v /\ generate_config_call(v)
    /\ pc' = "resolved"
    /\ UNCHANGED <<generator, features, menuselect, context, batch, templates_dir, table,
                   exclude_catalog>>

RepeatNext == RepeatGenerateConfig

RepeatSpec == RepeatInit /\ [][RepeatNext]_vars

\* C23: whatever calls of generate_config preceded, the generator still
\* holds the base template and base packages its constructor loaded, and the
\* configuration a call returned is the one the same call returns on a newly
\* constructed generator.
ResolutionLeavesSharedData ==
    pc = "resolved"
        => /\ dry = templates_dir
           /\ config = ConfigFromContext(templates_dir, template_context)

\* a call that wrote into its copies of all three template subtrees
ResolvedWithOverlays ==
    /\ pc = "resolved"
    /\ Has(templates_dir.base_template, "docker")
    /\ Has(template_context.variant_config, "docker")
    /\ Has(template_context.variant_config, "asterisk")
    /\ config # ConfigFromContext(NoDry, template_context)

(***************************************************************************)
(* scripts/update-readme-versions.py: the sort key of the version table.   *)
(***************************************************************************)
MaxRows == 2

\* the key of the identifier "git"
GitKey == <<999, 0, 0, 0>>

\* the key of an identifier that cannot be parsed
FallbackKey == <<0, 0, 0, 0>>

\* s.split(p): the parts of s between the occurrences of p, left to right
RECURSIVE Split(_, _)
Split(s, p) ==
    IF Contains(s, p)
    THEN LET first == SplitFirst(s, p)
         IN  <<first>> \o Split(From(s, Len(first) + Len(p) + 1), p)
    ELSE <<s>>

\* int(s) succeeds: an optional sign and at least one digit (the identifiers
\* explored hold no blank and no underscore)
IntParses(s) ==
    LET body == IF Len(s) > 0 /\ s[1] \in {"-", "+"} THEN Tail(s) ELSE s
    IN  Len(body) > 0 /\ \A i \in 1..Len(body) : IsDigit(body[i])

\* int(s) where it succeeds
IntValue(s) == IF s[1] = "-" THEN 0 - ToInt(Tail(s))
               ELSE IF s[1] = "+" THEN ToInt(Tail(s))
               ELSE ToInt(s)

\* version_sort_key; the except clause gives FallbackKey
version_sort_key(v) ==
    IF v = GIT THEN GitKey
    ELSE LET has_cert == Contains(v, CERT)
             pieces == Split(v, CERT)
             version_part == IF has_cert THEN pieces[1] ELSE v
             parts == Split(version_part, <<".">>)
             parsed ==
                 /\ has_cert => Len(pieces) = 2 /\ IntParses(pieces[2])
                 /\ IntParses(parts[1])
                 /\ Len(parts) > 1 => IntParses(parts[2])
                 /\ Len(parts) > 2 => IntParses(parts[3])
         IN  IF parsed
             THEN <<IntValue(parts[1]),
                    IF Len(parts) > 1 THEN IntValue(parts[2]) ELSE 0,
                    IF Len(parts) > 2 THEN IntValue(parts[3]) ELSE 0,
                    IF has_cert THEN IntValue(pieces[2]) ELSE 0>>
             ELSE FallbackKey

\* tuple comparison a < b
KeyLess(a, b) ==
    \E i \in 1..4 : a[i] < b[i] /\ \A j \in 1..(i - 1) : a[j] = b[j]

\* x put into a list sorted newest first, after the rows whose key is greater
\* and before the others (the sort is stable, reverse=True keeps it so)
RECURSIVE InsertNewestFirst(_, _)
InsertNewestFirst(x, rows) ==
    IF rows # <<>> /\ KeyLess(version_sort_key(x), version_sort_key(rows[1]))
    THEN <<rows[1]>> \o InsertNewestFirst(x, Tail(rows))
    ELSE <<x>> \o rows

\* versions.sort(key=lambda v: version_sort_key(v['version']), reverse=True)
RECURSIVE SortNewestFirst(_)
SortNewestFirst(rows) ==
    IF rows = <<>> THEN <<>>
    ELSE InsertNewestFirst(rows[1], SortNewestFirst(Tail(rows)))

\* the identifiers of the supported-builds file
ReadmeVersions ==
    {GIT, GIT_DASH \o <<"a", "1">>, GIT_DASH \o <<"2", "3">>,
     <<"2", "3", ".", "0", ".", "0">>, <<"2", "2", ".", "6">>,
     <<"2", "0", ".", "7">> \o CERT \o <<"7">>, <<"1", ".", "2", ".", "4", "0">>,
     <<"1", ".", "8", ".", "3", "2", ".", "3">>, <<"0", ".", "0", ".", "0">>, <<"1", "8">>,
     <<"2", "2", ".", "6">> \o RC \o <<"1">>, <<"a", "b", "c">>}

ReadmeRows == UNION {[1..n -> ReadmeVersions] : n \in 0..MaxRows}

\* the rows are collected from the builds file, in file order
ReadmeInit ==
    /\ version = <<>>
    /\ pc = "readme"
    /\ generator = NoGen
    /\ features = <<>>
    /\ menuselect = NoMenuSelectConfig
    /\ dry = NoDry
    /\ template_context = NoTemplateContext
    /\ config = NoConfig
    /\ context = NoContext
    /\ templates_dir = NoDry
    /\ batch = NoBatch
    /\ exclude_catalog = EXCLUDE_MODULES
    /\ \E rows \in ReadmeRows : table = [versions |-> rows, pc |-> "collected"]

\* generate_version_table sorts the rows newest first
GenerateVersionTable ==
    /\ table.pc = "collected"
    /\ table' = [versions |-> SortNewestFirst(table.versions), pc |-> "sorted"]
    /\ UNCHANGED <<version, pc, generator, features, menuselect, dry, template_context,
                   config, context, batch, templates_dir, exclude_catalog>>

ReadmeNext == GenerateVersionTable

ReadmeSpec == ReadmeInit /\ [][ReadmeNext]_vars

\* a numbered release: the version grammar, the development tip aside
NumberedRelease(v) == MatchesGrammar(v) /\ ~DevelopmentTip(v)

\* C24: in the sorted table every development-tip identifier ("git" and
\* every "git-<revision>") has a sort key strictly greater than the key of
\* every numbered release, and so stands above every numbered release.
DevelopmentTipSortsHighest ==
    table.pc = "sorted"
        => \A i, j \in 1..Len(table.versions) :
              DevelopmentTip(table.versions[i]) /\ NumberedRelease(table.versions[j])
                  => /\ KeyLess(version_sort_key(table.versions[j]),
                                version_sort_key(table.versions[i]))
                     /\ i < j

(***************************************************************************)
(* Module selection over catalog data that may hold a defect.              *)
(***************************************************************************)
CatalogVersions ==
    {<<"2", "3", ".", "1">>, <<"2", "2", ".", "6">>, <<"2", "0", ".", "7">> \o CERT \o <<"2">>,
     <<"1", "1", ".", "2">>, <<"1", ".", "8", ".", "3", "2">>, GIT, <<"a", "b", "c">>}

\* EXCLUDE_MODULES as shipped, and with a module that a rule enables
ExcludeCatalogs ==
    {EXCLUDE_MODULES,
     Append(EXCLUDE_MODULES, "app_dial"),
     Append(EXCLUDE_MODULES, "chan_pjsip"),
     <<"res_odbc">> \o EXCLUDE_MODULES}

CatalogInit ==
    /\ version \in CatalogVersions
    /\ pc = "start"
    /\ generator = NoGen
    /\ features = <<>>
    /\ menuselect = NoMenuSelectConfig
    /\ dry = NoDry
    /\ template_context = NoTemplateContext
    /\ config = NoConfig
    /\ context = NoContext
    /\ batch = NoBatch
    /\ templates_dir = NoDry
    /\ table = NoTable
    /\ exclude_catalog \in ExcludeCatalogs

\* generator.generate_config(features): no statement of it compares the two
\* lists, so a selection is always returned
CatalogGenerateConfig ==
    /\ pc = "ready"
    /\ \E f \in FeatureInputs :
          /\ features' = f
          /\ menuselect' = SelectModules(generator, f, exclude_catalog)
    /\ pc' = "selected"
    /\ UNCHANGED <<version, generator, dry, template_context, config, context, batch,
                   templates_dir, table, exclude_catalog>>

CatalogNext == Construct \/ CatalogGenerateConfig

CatalogSpec == CatalogInit /\ [][CatalogNext]_vars

\* C25: generate_config never returns a selection in which a module is in
\* both lists; where the catalog data makes the computed enable and disable
\* sets intersect, the call fails instead of returning.
ConflictingCatalogRejected ==
    pc = "selected"
        => /\ ToSet(exclude_catalog) \cap Enabled = {}
           /\ \A m \in Enabled : m \notin Disabled

(***************************************************************************)
(* End-to-end properties: the command list of the build context prepared   *)
(* from a resolved configuration.                                          *)
(***************************************************************************)
\* the names the command list of the build context enables / disables
CommandEnabled == ToSet(NamesOf("--enable", context.menuselect_commands))

CommandDisabled == ToSet(NamesOf("--disable", context.menuselect_commands))

\* C26: for a version with major 23 or more, the development tip included,
\* the command list prepared from the resolved configuration enables
\* chan_websocket, every WebSocket resource module and every ARI module,
\* whatever the variant layer and the flags hold.
EndToEndWebSocketAri ==
    (pc = "prepared" /\ MajorFrom23)
        => /\ "chan_websocket" \in CommandEnabled
           /\ ToSet(RESOURCE_MODULES.websocket) \subseteq CommandEnabled
           /\ ToSet(RESOURCE_MODULES.ari) \subseteq CommandEnabled

\* the version is the development tip or a version of the grammar whose major
\* number is 21 or more
MajorFrom21 ==
    \/ DevelopmentTip(version)
    \/ (MatchesGrammar(version) /\ ToInt(SubSeq(version, 1, DigitRun(version, 1))) >= 21)

\* C27: for a version with major 21 or more, the development tip included,
\* the command list prepared from the resolved configuration disables
\* chan_sip and does not enable it, whatever the layers hold.
EndToEndChanSipExcluded ==
    (pc = "prepared" /\ MajorFrom21)
        => /\ "chan_sip" \in CommandDisabled
           /\ "chan_sip" \notin CommandEnabled

(***************************************************************************)
(* Inference of distribution and variant.                                  *)
(***************************************************************************)
\* the distribution and variant arguments a call passes explicitly
ExplicitDistributions == {args[1] : args \in ResolveArguments} \ {None}

ExplicitVariants == {args[2] : args \in ResolveArguments} \ {None}

\* C28: the certified-build marker does not change the inferred distribution
\* or variant: in the context created for "V-certN" the distribution and
\* the variant, where not passed explicitly, are the ones inferred for V.
InferenceIgnoresCertMarker ==
    (pc = "resolved" /\ IsCertified(version))
        => /\ template_context.distribution
                  \in ExplicitDistributions \cup {_determine_distribution(WithoutCert(version))}
           /\ template_context.variant
                  \in ExplicitVariants \cup {_determine_variant(WithoutCert(version))}

(***************************************************************************)
(* Required modules.                                                       *)
(***************************************************************************)
\* C29: for every accepted version and every combination of flags, every
\* module get_required_menuselect_modules returns for the generator is in
\* the enable list generate_config returned.
RequiredModulesEnabled ==
    pc = "selected" => get_required_menuselect_modules(generator) \subseteq Enabled

(***************************************************************************)
(* The version overrides and the module lists.                             *)
(***************************************************************************)
\* a list of the asterisk.menuselect mapping of a configuration, empty when
\* the configuration has none
MenuselectList(cfg, key) ==
    Get(Get(Get(cfg, "asterisk", EmptyDict), "menuselect", EmptyDict), key, <<>>)

\* C30: where the enabled channel list and the exclude list of the
\* configuration given to _apply_version_overrides are disjoint, no module
\* is in both asterisk.menuselect.channels and asterisk.menuselect.exclude
\* of the configuration it returns.
OverridesKeepListsDisjoint ==
    (/\ pc = "resolved"
     /\ ToSet(MenuselectList(Substituted, "channels"))
            \cap ToSet(MenuselectList(Substituted, "exclude")) = {})
        => ToSet(MenuselectList(config, "channels"))
               \cap ToSet(MenuselectList(config, "exclude")) = {}

====
